---------------------------- MODULE Spec2Model ----------------------------
(***************************************************************************)
(* Model of the layer-timing instrumentation of cezbloch/object_detection: *)
(*   src/pytorchures/timing.py       TimedLayer, wrap_model_layers         *)
(*   src/object_detection/timing.py  the earlier TimedLayer variant        *)
(*                                                                         *)
(* The heap is a sequence of module objects; an object's identity is its   *)
(* index.  Every operation of the source is one action that applies the    *)
(* whole call (a recursive operator that threads the heap and an event     *)
(* trace through the statements in source order).                          *)
(***************************************************************************)
EXTENDS Integers, Sequences, FiniteSets, TLC

VARIABLES
    heap,     \* the module objects: raw components and TimedLayer proxies
    orig,     \* the component tree as the caller built it (never changes)
    prev,     \* the heap as it was when the last call started
    refs,     \* the objects the caller holds a reference to
    last,     \* the last call: its inputs and its outcome
    trace,    \* the events of the last call, in execution order
    env,      \* the runtime: device, grad mode, clock, pending device work
    calls     \* how many calls that change the heap were made

vars == <<heap, orig, prev, refs, last, trace, env, calls>>

----------------------------------------------------------------------------
(* Bounds *)

MaxNodes == 4        \* components in the tree the caller builds
MaxCalls == 2        \* top-level calls that change the heap, per run
MaxLookupDepth == 3  \* nested attribute lookups before the interpreter gives up

Tab == "\t"
Indents == { <<Tab>>, <<>> }     \* initial indents ("\t" is the default)
Args == { 1, 2 }                 \* argument values of an invocation

ClassNames == << "Net", "Backbone", "Block", "Head" >>
ClassName(i) == ClassNames[((i - 1) % Len(ClassNames)) + 1]

\* the names a component holds its children under: the digit names of a
\* torch.nn.Sequential ("0", "1", ... in registration order) or identifiers
DigitNames == << "0", "1", "2", "3", "4" >>
IdentNames == << "a", "b", "c", "d", "e" >>
\* sorted(): the child names in the order of Python's string comparison
SortedNames == DigitNames \o IdentNames
Rank(nm) == CHOOSE k \in 1..Len(SortedNames) : SortedNames[k] = nm
StartsWithDigit(nm) == \E k \in 1..Len(DigitNames) : DigitNames[k] = nm

----------------------------------------------------------------------------
(* Objects *)

\* a torch.nn.Module that is not a TimedLayer
RawModule(i, kids, names) ==
    [ kind |-> "Module", name |-> ClassName(i), children |-> kids,
      names |-> names, module |-> 0, module_name |-> "", total_time |-> 0, indent |-> <<>> ]

IsModule(h, x) == x \in 1..Len(h)
IsTimedLayer(h, x) == IsModule(h, x) /\ h[x].kind = "TimedLayer"

RECURSIVE SortedSeq(_)
SortedSeq(S) ==
    IF S = {} THEN <<>>
    ELSE LET m == CHOOSE x \in S : \A y \in S : x <= y
         IN <<m>> \o SortedSeq(S \ {m})

\* the strict trees over nodes 1..n: node i > 1 has one parent, below i
Trees(n) == { par \in [2..n -> 1..n] : \A i \in 2..n : par[i] < i }
TreeHeap(n, par, nm) ==
    [ i \in 1..n |-> RawModule(i, SortedSeq({ j \in 2..n : par[j] = i }), nm[i]) ]

\* the name lists of k children: a Sequential's, or identifiers registered
\* in any order
Perms(k) == { f \in [1..k -> 1..k] : \A i, j \in 1..k : f[i] = f[j] => i = j }
NameLists(k) ==
    { [ i \in 1..k |-> DigitNames[i] ] }
        \cup { [ i \in 1..k |-> IdentNames[f[i]] ] : f \in Perms(k) }

\* the ways to name the children of the nodes 1..i of a tree
RECURSIVE Namings(_, _, _)
Namings(n, par, i) ==
    IF i = 0 THEN { <<>> }
    ELSE { Append(nm, l) :
             nm \in Namings(n, par, i - 1),
             l \in NameLists(Cardinality({ j \in 2..n : par[j] = i })) }

\* identifiers in registration order
DefaultNaming(n, par) ==
    [ i \in 1..n |->
        [ k \in 1..Cardinality({ j \in 2..n : par[j] = i }) |-> IdentNames[k] ] ]

----------------------------------------------------------------------------
(* pytorchures TimedLayer.__init__ *)

Fail(h, tr, e) == [ heap |-> h, trace |-> tr, status |-> e, result |-> 0 ]
Ok(h, tr, r) == [ heap |-> h, trace |-> tr, status |-> "ok", result |-> r ]

NewTimedLayer(h, module, indent) ==
    [ kind |-> "TimedLayer", name |-> "TimedLayer", children |-> <<>>,
      names |-> <<>>, module |-> module, module_name |-> h[module].name,
      total_time |-> 0, indent |-> indent ]

\* TimedLayer.__init__ without its second assertion
TimedLayerInit_Unchecked(h, tr, module, indent) ==
    IF ~IsModule(h, module) THEN Fail(h, tr, "AssertionError")
    ELSE LET p == Len(h) + 1
         IN Ok(Append(h, NewTimedLayer(h, module, indent)),
               Append(tr, [ ev |-> "construct", obj |-> p, on |-> module, at |-> 0 ]),
               p)

TimedLayerInit(h, tr, module, indent) ==
    IF ~IsModule(h, module) THEN Fail(h, tr, "AssertionError")
    ELSE IF IsTimedLayer(h, module) THEN Fail(h, tr, "AssertionError")
    ELSE LET p == Len(h) + 1
         IN Ok(Append(h, NewTimedLayer(h, module, indent)),
               Append(tr, [ ev |-> "construct", obj |-> p, on |-> module, at |-> 0 ]),
               p)

----------------------------------------------------------------------------
(* pytorchures wrap_model_layers *)

SetChild(h, model, i, x) == [ h EXCEPT ![model].children[i] = x ]

RECURSIVE WrapModelLayers(_, _, _, _)
RECURSIVE WrapChildren(_, _, _, _, _)

\* the loop without the recursive call: only the direct children are wrapped
RECURSIVE WrapChildren_Shallow(_, _, _, _, _)
WrapChildren_Shallow(h, tr, model, indent, i) ==
    IF i > Len(h[model].children) THEN Ok(h, tr, 0)
    ELSE LET child == h[model].children[i]
             r2 == TimedLayerInit(h, tr, child, indent)
         IN IF r2.status # "ok" THEN r2
            ELSE WrapChildren_Shallow(
                     SetChild(r2.heap, model, i, r2.result),
                     Append(r2.trace, [ ev |-> "setattr", obj |-> r2.result,
                                        on |-> model, at |-> i ]),
                     model, indent, i + 1)

\* the loop in the order of object_detection's wrap_model_layers: the child
\* is replaced by its proxy first and its own children are wrapped after
RECURSIVE WrapChildren_TopDown(_, _, _, _, _)
WrapChildren_TopDown(h, tr, model, indent, i) ==
    IF i > Len(h[model].children) THEN Ok(h, tr, 0)
    ELSE LET child == h[model].children[i]
             r1 == TimedLayerInit(h, tr, child, indent)
         IN IF r1.status # "ok" THEN r1
            ELSE LET r2 == WrapModelLayers(
                               SetChild(r1.heap, model, i, r1.result),
                               Append(r1.trace, [ ev |-> "setattr", obj |-> r1.result,
                                                  on |-> model, at |-> i ]),
                               child, indent \o <<Tab>>)
                 IN IF r2.status # "ok" THEN r2
                    ELSE WrapChildren_TopDown(r2.heap, r2.trace, model, indent, i + 1)

\* the loop with the proxy built around the parent instead of the child
RECURSIVE WrapChildren_AroundParent(_, _, _, _, _)
WrapChildren_AroundParent(h, tr, model, indent, i) ==
    IF i > Len(h[model].children) THEN Ok(h, tr, 0)
    ELSE LET child == h[model].children[i]
             r1 == WrapModelLayers(h, tr, child, indent \o <<Tab>>)
         IN IF r1.status # "ok" THEN r1
            ELSE LET r2 == TimedLayerInit(r1.heap, r1.trace, model, indent)
                 IN IF r2.status # "ok" THEN r2
                    ELSE WrapChildren_AroundParent(
                             SetChild(r2.heap, model, i, r2.result),
                             Append(r2.trace, [ ev |-> "setattr", obj |-> r2.result,
                                                on |-> model, at |-> i ]),
                             model, indent, i + 1)

\* the loop of wrap_model_layers from its i-th child on.  named_children()
\* reads the live child table, so the child is read from the current heap.
WrapChildren(h, tr, model, indent, i) ==
    IF i > Len(h[model].children) THEN Ok(h, tr, 0)
    ELSE LET child == h[model].children[i]
             r1 == WrapModelLayers(h, tr, child, indent \o <<Tab>>)
         IN IF r1.status # "ok" THEN r1
            ELSE LET r2 == TimedLayerInit(r1.heap, r1.trace, child, indent)
                 IN IF r2.status # "ok" THEN r2
                    ELSE WrapChildren(
                             SetChild(r2.heap, model, i, r2.result),
                             Append(r2.trace, [ ev |-> "setattr", obj |-> r2.result,
                                                on |-> model, at |-> i ]),
                             model, indent, i + 1)

WrapModelLayers(h, tr, model, indent) ==
    IF ~IsModule(h, model) THEN Fail(h, tr, "AssertionError")
    ELSE IF IsTimedLayer(h, model) THEN Fail(h, tr, "AssertionError")
    ELSE LET r == WrapChildren(
                      h, Append(tr, [ ev |-> "print", obj |-> 0, on |-> model,
                                      at |-> Len(indent) ]),
                      model, indent, 1)
         IN IF r.status # "ok" THEN r
            ELSE TimedLayerInit(r.heap, r.trace, model, indent)

----------------------------------------------------------------------------
(* Invocation.  A run state r carries the heap, the event trace, the       *)
(* runtime (clock, pending device work, grad mode) and the outcome of the  *)
(* call that produced it: status "ok" with the value out, or "raised" with *)
(* the error err.                                                          *)

NoOut == [ val |-> 0, requires_grad |-> FALSE ]
NoErr == [ type |-> "", origin |-> 0 ]

Event(ev, obj, on, at) == [ ev |-> ev, obj |-> obj, on |-> on, at |-> at ]

Log(r, e) == [ r EXCEPT !.trace = Append(@, e) ]
Return(r, v) == [ r EXCEPT !.status = "ok", !.out = v ]
Raise(r, e) == [ r EXCEPT !.status = "raised", !.err = e, !.out = NoOut ]

\* torch.cuda.synchronize(): blocks until the pending device work is done
Synchronize(r) == [ r EXCEPT !.clock = @ + r.pending, !.pending = 0 ]

\* what a component without children computes: on a device the work is
\* issued asynchronously, otherwise it takes its time before returning;
\* the result requires grad when grad mode is on (it has parameters)
Compute(r, x) ==
    Return(IF r.cuda THEN [ r EXCEPT !.pending = @ + 1 ]
                     ELSE [ r EXCEPT !.clock = @ + 1 ],
           [ val |-> x.val + 1, requires_grad |-> r.grad ])

RECURSIVE CallModule(_, _, _)
RECURSIVE CallChildren(_, _, _, _)

\* a container feeds its input through its children, in order
CallChildren(r, c, x, i) ==
    IF i > Len(r.heap[c].children) THEN Return(r, x)
    ELSE LET r1 == CallModule(r, r.heap[c].children[i], x)
         IN IF r1.status # "ok" THEN r1
            ELSE CallChildren(r1, c, r1.out, i + 1)

\* self._module(*args, **kwargs) on a component that is no TimedLayer
ComponentForward(r, c, x) ==
    LET r1 == Log(r, Event("recv", c, x.val, r.clock))
    IN IF c = r.faulty
       THEN Raise(Log(r1, Event("raise", c, 0, r.clock)),
                  [ type |-> "RuntimeError", origin |-> c ])
       ELSE IF Len(r.heap[c].children) = 0 THEN Compute(r1, x)
       ELSE CallChildren(r1, c, x, 1)

\* a forward that catches what the wrapped component raises
TimedForward_Swallow(r, p, x) ==
    LET r1 == Log([ r EXCEPT !.grad = FALSE ], Event("start", p, 0, r.clock))
        r2 == CallModule(r1, r.heap[p].module, x)
        r3 == Log(Log(r2, Event("end", p, 0, r2.clock)),
                  Event("store", p, (r2.clock - r.clock) * 1000, r2.clock))
    IN [ Return(r3, IF r2.status = "ok" THEN r2.out ELSE NoOut)
           EXCEPT !.heap[p].total_time = (r2.clock - r.clock) * 1000,
                  !.grad = r.grad, !.err = NoErr ]

\* pytorchures TimedLayer.forward
TimedForward(r, p, x) ==
    LET start_time == r.clock
        r1 == Log([ r EXCEPT !.grad = FALSE ], Event("start", p, 0, start_time))
        r2 == CallModule(r1, r.heap[p].module, x)
    IN IF r2.status # "ok" THEN [ r2 EXCEPT !.grad = r.grad ]
       ELSE LET r3 == Log(r2, Event("returned", p, r2.out.val, r2.clock))
                r4 == IF r3.cuda
                      THEN Log(Synchronize(r3),
                               Event("sync", p, r3.pending, r3.clock + r3.pending))
                      ELSE r3
                end_time == r4.clock
                total_time_ms == (end_time - start_time) * 1000
                r5 == Log(Log(r4, Event("end", p, 0, end_time)),
                          Event("store", p, total_time_ms, end_time))
            IN [ r5 EXCEPT !.heap[p].total_time = total_time_ms, !.grad = r.grad ]

\* object_detection TimedLayer.forward: no grad-mode change, and the
\* barrier is called whether or not there is a device; without one
\* torch.cuda.synchronize() raises
OD_TimedForward(r, p, x) ==
    LET start_time == r.clock
        r1 == Log(r, Event("start", p, 0, start_time))
        r2 == CallModule(r1, r.heap[p].module, x)
    IN IF r2.status # "ok" THEN r2
       ELSE LET r3 == Log(r2, Event("returned", p, r2.out.val, r2.clock))
            IN IF ~r3.cuda
               THEN Raise(Log(r3, Event("raise", p, 0, r3.clock)),
                          [ type |-> "AssertionError", origin |-> p ])
               ELSE LET r4 == Log(Synchronize(r3),
                                  Event("sync", p, r3.pending, r3.clock + r3.pending))
                        end_time == r4.clock
                        total_time == (end_time - start_time) * 1000
                        r5 == Log(Log(r4, Event("end", p, 0, end_time)),
                                  Event("store", p, total_time, end_time))
                    IN [ r5 EXCEPT !.heap[p].total_time = total_time ]

CallModule(r, obj, x) ==
    IF IsTimedLayer(r.heap, obj) THEN TimedForward(r, obj, x)
    ELSE IF r.heap[obj].kind = "OD_TimedLayer" THEN OD_TimedForward(r, obj, x)
    ELSE ComponentForward(r, obj, x)

\* the run state a top-level call starts from
RunState(h, e) ==
    [ heap |-> h, trace |-> <<>>, cuda |-> e.cuda, faulty |-> e.faulty,
      grad |-> e.grad, clock |-> e.clock, pending |-> e.pending,
      status |-> "ok", out |-> NoOut, err |-> NoErr ]

Input(a) == [ val |-> a, requires_grad |-> FALSE ]

----------------------------------------------------------------------------
(* pytorchures TimedLayer.get_timings *)

RECURSIVE GetTimings(_, _)
RECURSIVE SubTimings(_, _, _)

SubTimings(h, kids, i) ==
    IF i > Len(kids) THEN <<>>
    ELSE (IF IsTimedLayer(h, kids[i]) THEN << GetTimings(h, kids[i]) >> ELSE <<>>)
         \o SubTimings(h, kids, i + 1)

\* get_timings enumerating the proxy's own children, not the component's
GetTimings_OwnChildren(h, p) ==
    [ module_name |-> h[p].module_name,
      total_time |-> h[p].total_time,
      sub_modules |-> SubTimings(h, h[p].children, 1) ]

GetTimings(h, p) ==
    [ module_name |-> h[p].module_name,
      total_time |-> h[p].total_time,
      sub_modules |-> SubTimings(h, h[h[p].module].children, 1) ]

----------------------------------------------------------------------------
(* object_detection TimedLayer.__init__: no precondition is checked *)

OD_TimedLayerInit(h, tr, layer, indent) ==
    LET p == Len(h) + 1
    IN Ok(Append(h, [ kind |-> "OD_TimedLayer", name |-> "TimedLayer",
                      children |-> <<>>, names |-> <<>>, module |-> layer,
                      module_name |-> h[layer].name, total_time |-> 0,
                      indent |-> indent ]),
          Append(tr, Event("construct", p, layer, 0)),
          p)

----------------------------------------------------------------------------
(* object_detection wrap_model_layers: every attribute of model that is a  *)
(* Module is replaced by a proxy first, and the attribute's own attributes *)
(* are wrapped after; nothing is checked and nothing is returned.  The     *)
(* attributes are those of dir(model): sorted by name, and without the     *)
(* child names that start with a digit, which torch.nn.Module.__dir__      *)
(* leaves out.  A proxy holds its component under one attribute (layer).   *)

RECURSIVE OD_WrapModelLayers(_, _, _, _)
RECURSIVE OD_WrapAttrs(_, _, _, _, _, _)

\* dir(model), as the positions in the child table of the names it lists
RECURSIVE SortByName(_, _)
SortByName(names, S) ==
    IF S = {} THEN <<>>
    ELSE LET m == CHOOSE x \in S : \A y \in S : Rank(names[x]) <= Rank(names[y])
         IN <<m>> \o SortByName(names, S \ {m})

Dir(h, model) ==
    SortByName(h[model].names,
               { k \in 1..Len(h[model].names) : ~StartsWithDigit(h[model].names[k]) })

\* the loop over attributes, from its i-th on.  getattr reads the live
\* child table.
OD_WrapAttrs(h, tr, model, attributes, indent, i) ==
    IF i > Len(attributes) THEN Ok(h, tr, 0)
    ELSE LET a == attributes[i]
             attr == h[model].children[a]
             r1 == OD_TimedLayerInit(h, tr, attr, indent)
             r2 == OD_WrapModelLayers(
                       SetChild(r1.heap, model, a, r1.result),
                       Append(r1.trace, Event("setattr", r1.result, model, a)),
                       attr, indent \o <<Tab>>)
         IN OD_WrapAttrs(r2.heap, r2.trace, model, attributes, indent, i + 1)

OD_WrapModelLayers(h, tr, model, indent) ==
    IF h[model].kind = "Module"
    THEN OD_WrapAttrs(h, tr, model, Dir(h, model), indent, 1)
    ELSE LET attr == h[model].module
             r1 == OD_TimedLayerInit(h, tr, attr, indent)
         IN OD_WrapModelLayers(
                [ r1.heap EXCEPT ![model].module = r1.result,
                                 ![model].module_name = "TimedLayer" ],
                Append(r1.trace, Event("setattr", r1.result, model, 0)),
                attr, indent \o <<Tab>>)

----------------------------------------------------------------------------
(* Attribute lookup on a pytorchures TimedLayer: getattr(p, n).            *)
(* defined is the set of names the wrapped component defines itself.       *)

\* found by normal lookup: the class (TimedLayer, torch.nn.Module) and the
\* instance dictionary
ProxyClassAttrs == { "forward", "get_timings", "named_children" }
ProxyDictAttrs == { "_module_name", "_total_time_ms", "_indent" }
\* held by torch.nn.Module.__getattr__: the registered submodules
ProxyRegistered == { "_module" }
\* what every torch.nn.Module has
ModuleAttrs == { "forward", "named_children" }
\* names a component may define itself
ComponentNames == { "weight", "_indent", "get_timings" }
AttrNames ==
    ProxyClassAttrs \cup ProxyDictAttrs \cup ProxyRegistered \cup ComponentNames
        \cup { "postprocess" }

Found(owner, n) == [ status |-> "ok", owner |-> owner, name |-> n ]
NotFound(e) == [ status |-> e, owner |-> 0, name |-> "" ]

\* torch.nn.Module.__getattr__ on the proxy
SuperGetAttr(h, p, n) ==
    IF n \in ProxyRegistered THEN Found(p, n) ELSE NotFound("AttributeError")

\* getattr on the wrapped component
ComponentGetAttr(h, c, defined, n) ==
    IF n \in ModuleAttrs \cup defined THEN Found(c, n)
    ELSE NotFound("AttributeError")

RECURSIVE GetAttr(_, _, _, _, _)

\* TimedLayer.__getattr__, reached when normal lookup fails; self._module
\* in its except branch is itself looked up on the proxy
TimedGetAttr(h, p, defined, n, depth) ==
    LET r == SuperGetAttr(h, p, n)
    IN IF r.status = "ok" THEN r
       ELSE LET m == GetAttr(h, p, defined, "_module", depth + 1)
            IN IF m.status # "ok" THEN m
               ELSE ComponentGetAttr(h, h[m.owner].module, defined, n)

\* a lookup that asks the wrapped component first
GetAttr_ForwardFirst(h, p, defined, n, depth) ==
    IF depth > MaxLookupDepth THEN NotFound("RecursionError")
    ELSE IF n \in ModuleAttrs \cup defined THEN Found(h[p].module, n)
    ELSE IF n \in ProxyClassAttrs \cup ProxyDictAttrs THEN Found(p, n)
    ELSE TimedGetAttr(h, p, defined, n, depth)

GetAttr(h, p, defined, n, depth) ==
    IF depth > MaxLookupDepth THEN NotFound("RecursionError")
    ELSE IF n \in ProxyClassAttrs \cup ProxyDictAttrs THEN Found(p, n)
    ELSE TimedGetAttr(h, p, defined, n, depth)

----------------------------------------------------------------------------
(* The caller *)

\* everything the caller can get at from the references it holds
RECURSIVE Reach(_, _)
Reach(h, S) ==
    LET T == S \cup UNION { { h[x].children[i] : i \in 1..Len(h[x].children) } : x \in S }
               \cup { h[x].module : x \in { y \in S : h[y].kind # "Module" } }
    IN IF T = S THEN S ELSE Reach(h, T)

Targets == Reach(heap, refs)

NoReport == [ module_name |-> "", total_time |-> 0, sub_modules |-> <<>> ]

NoCall ==
    [ op |-> "none", target |-> 0, indent |-> <<>>, arg |-> 0, status |-> "ok",
      result |-> 0, out |-> NoOut, err |-> NoErr, report |-> NoReport,
      name |-> "", defined |-> {} ]

\* a machine without a device, grad mode on, no component that fails
DefaultEnv ==
    [ cuda |-> FALSE, grad |-> TRUE, faulty |-> 0, clock |-> 0, pending |-> 0 ]

\* get_timings and getattr change nothing: a run is followed up to its
\* first query, and up to MaxCalls calls that change the heap
Queried == last.op \in { "get_timings", "getattr" }
CanCall == calls < MaxCalls /\ ~Queried

Init ==
    /\ \E n \in 1..MaxNodes : \E par \in Trees(n) :
          heap = TreeHeap(n, par, DefaultNaming(n, par))
    /\ orig = heap
    /\ prev = heap
    /\ refs = {1}
    /\ last = NoCall
    /\ trace = <<>>
    /\ env = DefaultEnv
    /\ calls = 0

\* TimedLayer(x, indent); x = 0 stands for a value that is no Module
Construct ==
    /\ CanCall
    /\ \E x \in Targets \cup {0}, indent \in Indents :
          LET r == TimedLayerInit(heap, <<>>, x, indent)
          IN /\ heap' = r.heap
             /\ trace' = r.trace
             /\ refs' = IF r.status = "ok" THEN refs \cup {r.result} ELSE refs
             /\ last' = [ NoCall EXCEPT !.op = "construct", !.target = x,
                            !.indent = indent, !.status = r.status,
                            !.result = r.result ]
    /\ prev' = heap
    /\ calls' = calls + 1
    /\ UNCHANGED <<orig, env>>

\* wrap_model_layers(x, indent)
Wrap ==
    /\ CanCall
    /\ \E x \in Targets \cup {0}, indent \in Indents :
          LET r == WrapModelLayers(heap, <<>>, x, indent)
          IN /\ heap' = r.heap
             /\ trace' = r.trace
             /\ refs' = IF r.status = "ok" THEN refs \cup {r.result} ELSE refs
             /\ last' = [ NoCall EXCEPT !.op = "wrap", !.target = x,
                            !.indent = indent, !.status = r.status,
                            !.result = r.result ]
    /\ prev' = heap
    /\ calls' = calls + 1
    /\ UNCHANGED <<orig, env>>

Next == Construct \/ Wrap

Spec == Init /\ [][Next]_vars

----------------------------------------------------------------------------
(* Running a model: the caller has a component tree, as built or as        *)
(* wrapped by wrap_model_layers(root, indent), on some machine, and        *)
(* invokes the modules it holds.                                           *)

Envs(n) ==
    { [ cuda |-> c, grad |-> g, faulty |-> f, clock |-> 0, pending |-> 0 ] :
        c \in BOOLEAN, g \in BOOLEAN, f \in 0..n }

\* the state wrap_model_layers(1, indent) leaves a tree as built in
AfterWrap(indent) ==
    LET r == WrapModelLayers(orig, <<>>, 1, indent)
    IN /\ heap = r.heap
       /\ refs = {1, r.result}
       /\ last = [ NoCall EXCEPT !.op = "wrap", !.target = 1, !.indent = indent,
                     !.status = r.status, !.result = r.result ]
       /\ trace = r.trace
       /\ prev = orig
       /\ calls = 1

AsBuilt ==
    /\ heap = orig
    /\ refs = {1}
    /\ last = NoCall
    /\ trace = <<>>
    /\ prev = orig
    /\ calls = 0

InitRun ==
    \E n \in 1..MaxNodes : \E par \in Trees(n) :
        /\ orig = TreeHeap(n, par, DefaultNaming(n, par))
        /\ env \in Envs(n)
        /\ AsBuilt \/ \E indent \in Indents : AfterWrap(indent)

\* x(arg) for a module x the caller holds
Invoke ==
    /\ CanCall
    /\ \E x \in refs, a \in Args :
          LET r == CallModule(RunState(heap, env), x, Input(a))
          IN /\ heap' = r.heap
             /\ trace' = r.trace
             /\ env' = [ env EXCEPT !.grad = r.grad, !.clock = r.clock,
                                    !.pending = r.pending ]
             /\ last' = [ NoCall EXCEPT !.op = "invoke", !.target = x, !.arg = a,
                            !.status = r.status, !.out = r.out, !.err = r.err ]
    /\ prev' = heap
    /\ calls' = calls + 1
    /\ UNCHANGED <<orig, refs>>

\* p.get_timings() for a TimedLayer p the caller holds
Timings ==
    /\ ~Queried
    /\ \E p \in { x \in refs : IsTimedLayer(heap, x) } :
          last' = [ NoCall EXCEPT !.op = "get_timings", !.target = p,
                      !.report = GetTimings(heap, p) ]
    /\ prev' = heap
    /\ UNCHANGED <<heap, orig, refs, trace, env, calls>>

NextRun == Invoke \/ Timings

SpecRun == InitRun /\ [][NextRun]_vars

----------------------------------------------------------------------------
(* Attribute access on the proxies of a wrapped tree *)

InitAttr ==
    \E n \in 1..MaxNodes : \E par \in Trees(n) :
        /\ orig = TreeHeap(n, par, DefaultNaming(n, par))
        /\ env = DefaultEnv
        /\ \E indent \in Indents : AfterWrap(indent)

\* getattr(p, n) for a TimedLayer p the caller can reach
Lookup ==
    /\ ~Queried
    /\ \E p \in { x \in Targets : IsTimedLayer(heap, x) },
          n \in AttrNames, defined \in SUBSET ComponentNames :
          LET r == GetAttr(heap, p, defined, n, 0)
          IN last' = [ NoCall EXCEPT !.op = "getattr", !.target = p, !.name = n,
                         !.defined = defined, !.status = r.status,
                         !.result = r.owner ]
    /\ prev' = heap
    /\ UNCHANGED <<heap, orig, refs, trace, env, calls>>

NextAttr == Lookup

SpecAttr == InitAttr /\ [][NextAttr]_vars

----------------------------------------------------------------------------
(* The object_detection variant of the proxy *)

InitOD ==
    \E n \in 1..MaxNodes : \E par \in Trees(n) : \E nm \in Namings(n, par, n) :
        /\ orig = TreeHeap(n, par, nm)
        /\ env \in Envs(n)
        /\ AsBuilt

\* object_detection TimedLayer(x, indent) for a module x the caller holds
OD_Construct ==
    /\ CanCall
    /\ \E x \in refs, indent \in Indents :
          LET r == OD_TimedLayerInit(heap, <<>>, x, indent)
          IN /\ heap' = r.heap
             /\ trace' = r.trace
             /\ refs' = refs \cup {r.result}
             /\ last' = [ NoCall EXCEPT !.op = "construct", !.target = x,
                            !.indent = indent, !.status = r.status,
                            !.result = r.result ]
    /\ prev' = heap
    /\ calls' = calls + 1
    /\ UNCHANGED <<orig, env>>

\* object_detection wrap_model_layers(x, indent) for a module x the caller
\* holds; it returns None, so the caller gains no reference
OD_Wrap ==
    /\ CanCall
    /\ \E x \in refs, indent \in Indents :
          LET r == OD_WrapModelLayers(heap, <<>>, x, indent)
          IN /\ heap' = r.heap
             /\ trace' = r.trace
             /\ last' = [ NoCall EXCEPT !.op = "od_wrap", !.target = x,
                            !.indent = indent, !.status = r.status ]
    /\ prev' = heap
    /\ calls' = calls + 1
    /\ UNCHANGED <<orig, refs, env>>

NextOD == OD_Construct \/ OD_Wrap \/ Invoke

SpecOD == InitOD /\ [][NextOD]_vars

----------------------------------------------------------------------------
(* Vocabulary of the properties *)

Range(q) == { q[i] : i \in 1..Len(q) }

\* the components of the tree below (and including) c, as the caller built it
Subtree(c) == Reach(orig, {c})

IsComponent(x) == x \in 1..Len(orig)

\* no child reference below x holds a proxy yet
Clean(h, x) ==
    /\ IsComponent(x)
    /\ \A c \in Subtree(x) : h[c].children = orig[c].children

\* some child reference below x already holds a proxy
HasWrappedChild(h, x) ==
    /\ IsComponent(x)
    /\ \E c \in Subtree(x) : \E k \in Range(h[c].children) : IsTimedLayer(h, k)

\* the i-th child reference of c holds a TimedLayer around the original child
Wrapped(h, c, i) ==
    /\ IsTimedLayer(h, h[c].children[i])
    /\ h[h[c].children[i]].module = orig[c].children[i]

Covered(h, x) ==
    \A c \in Subtree(x) : \A i \in 1..Len(orig[c].children) : Wrapped(h, c, i)

ParentOf(c) == CHOOSE q \in 1..Len(orig) : c \in Range(orig[q].children)

RECURSIVE DepthBelow(_, _)
DepthBelow(root, c) == IF c = root THEN 0 ELSE 1 + DepthBelow(root, ParentOf(c))

RECURSIVE Tabs(_)
Tabs(d) == IF d = 0 THEN <<>> ELSE <<Tab>> \o Tabs(d - 1)

WrapDone == last.op = "wrap" /\ last.status = "ok"
WrapFailed == last.op = "wrap" /\ last.status = "AssertionError"

----------------------------------------------------------------------------
(* C1: full coverage.  wrap_model_layers on a tree of unwrapped components *)
(* returns a TimedLayer around the root, and afterwards every child        *)
(* reference at every depth holds a TimedLayer around the original child.  *)

C1_FullCoverage ==
    (last.op = "wrap" /\ Clean(prev, last.target))
        => /\ last.status = "ok"
           /\ IsTimedLayer(heap, last.result)
           /\ heap[last.result].module = last.target
           /\ Covered(heap, last.target)

C1_Witness ==
    /\ WrapDone
    /\ last.target = 1
    /\ Clean(prev, 1)
    /\ \E c \in Subtree(1) : DepthBelow(1, c) = 2
    /\ \E c \in Subtree(1) : Len(orig[c].children) = 2

----------------------------------------------------------------------------
NoProxyOfProxy ==
    \A p \in 1..Len(heap) :
        IsTimedLayer(heap, p) => ~IsTimedLayer(heap, heap[p].module)

(* C2: no silent double wrap.  No TimedLayer ever wraps a TimedLayer, and  *)
(* constructing a TimedLayer around a proxy, or wrapping a proxy or a tree *)
(* that already holds proxies, fails with an AssertionError.               *)

C2_NoDoubleWrap ==
    /\ NoProxyOfProxy
    /\ (last.op = "construct" /\ IsTimedLayer(prev, last.target))
          => last.status = "AssertionError"
    /\ (last.op = "wrap"
          /\ (IsTimedLayer(prev, last.target) \/ HasWrappedChild(prev, last.target)))
          => last.status = "AssertionError"

C2_Witness ==
    /\ WrapFailed
    /\ last.target = 1
    /\ Covered(prev, 1)
    /\ Len(orig) > 1
    /\ \E p \in 1..Len(heap) : IsTimedLayer(heap, p) /\ heap[p].module = 1

----------------------------------------------------------------------------
(* C6: indent depth.  After wrap_model_layers(root, indent) the proxy of a *)
(* node at depth d carries the initial indent followed by d tabs.          *)

C6_IndentDepth ==
    WrapDone =>
        /\ heap[last.result].indent = last.indent
        /\ \A c \in Subtree(last.target) : \A i \in 1..Len(orig[c].children) :
              heap[heap[c].children[i]].indent
                  = last.indent \o Tabs(DepthBelow(last.target, orig[c].children[i]))

----------------------------------------------------------------------------
Built(k) == trace[k].ev = "construct"

(* C9: bottom-up order.  During wrap_model_layers a proxy for X is built   *)
(* only after every child reference of X was replaced by a proxy; so the   *)
(* component of every proxy the pass built has only proxies as children.   *)

C9_BottomUp ==
    last.op = "wrap" =>
        \A k \in 1..Len(trace) : Built(k) =>
            LET X == trace[k].on
            IN /\ \A i \in 1..Len(orig[X].children) :
                     \E j \in 1..(k - 1) :
                         /\ trace[j].ev = "setattr"
                         /\ trace[j].on = X
                         /\ trace[j].at = i
               /\ \A c \in Range(heap[X].children) : IsTimedLayer(heap, c)

C9_Witness ==
    /\ WrapDone
    /\ \E k \in 1..Len(trace) :
          /\ Built(k)
          /\ trace[k].obj \in Range(heap[last.target].children)
          /\ Len(orig[trace[k].on].children) = 2

----------------------------------------------------------------------------
(* C10: failure atomicity.  As claimed: a failed wrap_model_layers leaves  *)
(* every child reference of every component as it was before the call.    *)

C10_FailureAtomic ==
    WrapFailed => \A c \in 1..Len(orig) : heap[c].children = prev[c].children

(* C10, amended: a wrap_model_layers that fails at the root itself        *)
(* leaves the heap as it was; one that fails at a descendant keeps the     *)
(* replacements made before the failure, and every child reference is      *)
(* either unchanged or holds a new TimedLayer around the original child.   *)

C10_FailureKeepsReplacements ==
    WrapFailed =>
        /\ ~(IsComponent(last.target) /\ ~IsTimedLayer(prev, last.target))
              => heap = prev
        /\ \A c \in 1..Len(orig) : \A i \in 1..Len(orig[c].children) :
              \/ heap[c].children[i] = prev[c].children[i]
              \/ /\ prev[c].children[i] = orig[c].children[i]
                 /\ heap[c].children[i] > Len(prev)
                 /\ Wrapped(heap, c, i)

C10_Witness ==
    /\ WrapFailed
    /\ \E c \in 1..Len(orig) : heap[c].children # prev[c].children

----------------------------------------------------------------------------
(* Vocabulary of the invocation properties *)

Invoked == last.op = "invoke"

\* the proxies wrap_model_layers returned to the caller
Returned == { p \in refs : IsTimedLayer(heap, p) }

\* how often component c was invoked during the last call, and with what
Received(c) == { k \in 1..Len(trace) : trace[k].ev = "recv" /\ trace[k].obj = c }

\* C(A): the wrapped component invoked directly, from the same heap and in
\* the same runtime
Direct(p) == CallModule(RunState(prev, env), prev[p].module, Input(last.arg))

----------------------------------------------------------------------------
(* C3: transparency.  Invoking the proxy returned by wrap_model_layers(C)  *)
(* with A invokes C exactly once with A and yields the result that         *)
(* invoking C directly with A yields in the same ambient context.          *)

C3_Transparency ==
    (Invoked /\ last.target \in Returned) =>
        LET C == heap[last.target].module
        IN /\ Cardinality(Received(C)) = 1
           /\ \A k \in Received(C) : trace[k].on = last.arg
           /\ last.status = Direct(last.target).status
           /\ last.status = "ok" => last.out = Direct(last.target).out
           /\ last.status = "raised" => last.err = Direct(last.target).err

----------------------------------------------------------------------------
(* C4: no masking.  An error a component raises, at any depth of a wrapped *)
(* tree, reaches the caller unchanged: no proxy on the way catches it,     *)
(* replaces it or invokes the component again.                             *)

C4_NoMasking ==
    Invoked =>
        \A k \in 1..Len(trace) : trace[k].ev = "raise" =>
            /\ last.status = "raised"
            /\ last.err = [ type |-> "RuntimeError", origin |-> trace[k].obj ]
            /\ Cardinality(Received(trace[k].obj)) = 1
            /\ k = Len(trace)

C4_Witness ==
    /\ Invoked
    /\ last.target \in Returned
    /\ heap[last.target].module = 1
    /\ last.status = "raised"
    /\ IsComponent(last.err.origin)
    /\ DepthBelow(1, last.err.origin) = 2
    /\ Covered(heap, 1)

----------------------------------------------------------------------------
RECURSIVE TreeShape(_)
TreeShape(c) ==
    [ name |-> orig[c].name,
      kids |-> [ i \in 1..Len(orig[c].children) |-> TreeShape(orig[c].children[i]) ] ]

RECURSIVE ReportShape(_)
ReportShape(t) ==
    [ name |-> t.module_name,
      kids |-> [ i \in 1..Len(t.sub_modules) |-> ReportShape(t.sub_modules[i]) ] ]

RECURSIVE NonNegative(_)
NonNegative(t) ==
    /\ t.total_time >= 0
    /\ \A i \in 1..Len(t.sub_modules) : NonNegative(t.sub_modules[i])

RECURSIVE Longest(_)
Longest(t) ==
    LET below == { Longest(t.sub_modules[i]) : i \in 1..Len(t.sub_modules) }
        all == below \cup { t.total_time }
    IN CHOOSE m \in all : \A n \in all : n <= m

(* C5: report shape.  get_timings() on the proxy wrap_model_layers(root)   *)
(* returned mirrors the component tree: the same children in the same      *)
(* order at every node, each named after its component, durations >= 0.    *)

C5_ReportShape ==
    (last.op = "get_timings" /\ last.target \in Returned) =>
        /\ ReportShape(last.report) = TreeShape(heap[last.target].module)
        /\ NonNegative(last.report)

C5_Witness ==
    /\ last.op = "get_timings"
    /\ last.target \in Returned
    /\ heap[last.target].module = 1
    /\ \E k \in 1..Len(trace) : trace[k].ev = "store" /\ trace[k].obj = last.target
    /\ Len(last.report.sub_modules) = 2
    /\ \E i \in 1..2 : Len(last.report.sub_modules[i].sub_modules) = 1
    /\ Longest(last.report) > 0

----------------------------------------------------------------------------
Ev(k) == IF k \in 1..Len(trace) THEN trace[k].ev ELSE "none"

(* C7: sync-wait inclusion.  Once the wrapped component has returned, the  *)
(* proxy completes the device barrier (nothing to do without a device),    *)
(* then takes the end timestamp, then stores the duration, which therefore *)
(* covers the delay D of the barrier.                                      *)

C7_SyncWaitInclusion ==
    Invoked =>
        \A k \in 1..Len(trace) : trace[k].ev = "returned" =>
            LET p == trace[k].obj
                e == IF env.cuda THEN k + 2 ELSE k + 1
            IN /\ \E j \in 1..(k - 1) : trace[j].ev = "start" /\ trace[j].obj = p
               /\ env.cuda => Ev(k + 1) = "sync" /\ trace[k + 1].obj = p
               /\ Ev(e) = "end" /\ trace[e].obj = p
               /\ Ev(e + 1) = "store" /\ trace[e + 1].obj = p
               /\ env.cuda => /\ trace[e].at >= trace[k + 1].at
                              /\ trace[e + 1].on >= trace[k + 1].on * 1000

----------------------------------------------------------------------------
ProxyDefines(n) == n \in ProxyClassAttrs \cup ProxyDictAttrs \cup ProxyRegistered
ComponentDefines(n) == n \in ModuleAttrs \cup last.defined

(* C8: attribute forwarding.  A name the proxy defines is answered by the  *)
(* proxy, also when the wrapped component defines it too; any other name   *)
(* the wrapped component defines is answered by the component; a name that *)
(* neither defines raises AttributeError; the lookup always ends.          *)

C8_AttributeForwarding ==
    last.op = "getattr" =>
        /\ last.status # "RecursionError"
        /\ ProxyDefines(last.name)
              => last.status = "ok" /\ last.result = last.target
        /\ (~ProxyDefines(last.name) /\ ComponentDefines(last.name))
              => last.status = "ok" /\ last.result = heap[last.target].module
        /\ (~ProxyDefines(last.name) /\ ~ComponentDefines(last.name))
              => last.status = "AttributeError"

C8_Witness ==
    /\ last.op = "getattr"
    /\ last.name = "_indent"
    /\ "_indent" \in last.defined
    /\ last.result = last.target

=============================================================================
